---- MODULE Spec2Model ----
(***************************************************************************)
(* scripts/setup_glad.py of nilos_engine: the GLAD bootstrap script.       *)
(*                                                                         *)
(* One run of the script is main() wrapped in the __main__ handler.  The   *)
(* model walks the script statement block by statement block; everything   *)
(* the script cannot decide itself (what the user types, whether `import   *)
(* glad` works, how the two subprocesses end, a Ctrl-C) is chosen by the   *)
(* environment at the statement where the script observes it.  Runs follow *)
(* one another on the same filesystem; the previous run is kept in `prev`. *)
(*                                                                         *)
(* Strings the script manipulates (the answer typed at the prompt) are     *)
(* sequences of one-character strings.  Paths are sequences of components, *)
(* so os.path.join is concatenation whatever the separator of the host.    *)
(* An argv is a sequence of such sequences: the literal "c" is <<"c">>.    *)
(***************************************************************************)
EXTENDS Integers, Sequences, FiniteSets, TLC

VARIABLES
    fs,      \* the generated files that exist on disk
    fs0,     \* fs when the current run started
    pc,      \* position of the current run in the script
    exists,  \* result of os.path.exists(glad_header) in this run
    answer,  \* <<line>> once input() has returned line, <<>> before
    imp,     \* how `import glad` ended: "none" (not reached), "ok", "ImportError", "Exception"
    inst,    \* how the pip subprocess.check_call ended
    gen,     \* how the glad subprocess.check_call ended
    exc,     \* exception propagating out of main(): "none", "KeyboardInterrupt", "Exception"
    ret,     \* value returned by main(): <<>> is None, <<n>> is n
    exit,    \* <<code>> once sys.exit(code) ran, <<>> before
    out,     \* lines printed so far in this run
    calls,   \* argv of every subprocess started in this run, in order
    trace,   \* the steps of the script that ran in this run, in order
    prev     \* <<r>> with r the record of the previous run, <<>> in the first run

vars == <<fs, fs0, pc, exists, answer, imp, inst, gen, exc, ret, exit, out, calls, trace, prev>>

(***************************************************************************)
(* Bounds of the environment.                                              *)
(***************************************************************************)
\* longest line the user types at the prompt
MaxLen == 2

\* characters the user types: the affirmative letter in both cases, another
\* letter, and whitespace
Alphabet == {"y", "Y", "n", " "}

Whitespace == {" "}

SeqsUpTo(S, n) == UNION {[1..k -> S] : k \in 0..n}

Answers == SeqsUpTo(Alphabet, MaxLen)

\* exit statuses of a child process that ran to its end
ReturnCodes == {0, 1, 2}

(***************************************************************************)
(* Pure helpers of the script.                                             *)
(***************************************************************************)
\* os.path.join(base, *parts)
Join(base, parts) == base \o parts

\* a command-line word
Str(s) == <<s>>

\* sys.executable
Executable == Str("python")

\* glad_path = os.path.join("external", "glad")
glad_path == Join(<<"external">>, <<"glad">>)

\* glad_header = os.path.join(glad_path, "include", "glad", "glad.h")
glad_header == Join(glad_path, <<"include", "glad", "glad.h">>)

\* a slip: the platform header listed beside glad.h
GeneratedFilesFlat ==
    << Join(glad_path, <<"include", "glad", "glad.h">>),
       Join(glad_path, <<"include", "glad", "khrplatform.h">>),
       Join(glad_path, <<"src", "glad.c">>) >>

\* the three paths of the "Generated files:" report, in the order printed
GeneratedFiles ==
    << Join(glad_path, <<"include", "glad", "glad.h">>),
       Join(glad_path, <<"include", "KHR", "khrplatform.h">>),
       Join(glad_path, <<"src", "glad.c">>) >>

FileSet == {GeneratedFiles[i] : i \in 1..Len(GeneratedFiles)}

\* what may be on disk: nothing, the header alone (the generator stopped
\* early, or the other files were removed), or all it generates
Layouts == {{}, {glad_header}, FileSet}

\* [sys.executable, "-m", "pip", "install", "glad"]
PipCmd == <<Executable, Str("-m"), Str("pip"), Str("install"), Str("glad")>>

\* a slip: the directory of the header passed as --out-path
GladCmdHeaderDir ==
    <<Executable, Str("-m"), Str("glad"),
      Str("--generator"), Str("c"),
      Str("--spec"), Str("gl"),
      Str("--out-path"), Join(glad_path, <<"include", "glad">>),
      Str("--api"), Str("gl=3.3")>>

\* cmd = [sys.executable, "-m", "glad", "--generator", "c", "--spec", "gl",
\*        "--out-path", glad_path, "--api", "gl=3.3"]
GladCmd ==
    <<Executable, Str("-m"), Str("glad"),
      Str("--generator"), Str("c"),
      Str("--spec"), Str("gl"),
      Str("--out-path"), glad_path,
      Str("--api"), Str("gl=3.3")>>

\* str.strip(): leading and trailing whitespace removed
RECURSIVE LStrip(_)
LStrip(s) ==
    IF s # <<>> /\ Head(s) \in Whitespace THEN LStrip(Tail(s)) ELSE s

RECURSIVE RStrip(_)
RStrip(s) ==
    IF s # <<>> /\ s[Len(s)] \in Whitespace
    THEN RStrip(SubSeq(s, 1, Len(s) - 1))
    ELSE s

Strip(s) == RStrip(LStrip(s))

\* str.lower()
LowerChar(c) == IF c = "Y" THEN "y" ELSE c

Lower(s) == [i \in 1..Len(s) |-> LowerChar(s[i])]

\* response = input(...).strip().lower()
Response(line) == Lower(Strip(line))

\* a slip: the answer is not lowercased
RegenerateCaseSensitive(line) == Strip(line) = <<"y">>

\* a slip: only an explicit "n" keeps the existing files
RegenerateUnlessNo(line) == Response(line) # <<"n">>

\* the test of `if response != 'y'`, negated: the run goes on to regenerate
Regenerate(line) == Response(line) = <<"y">>

\* one printed line: a message and the path it shows (<<>> when none)
Line(m) == [msg |-> m, path |-> <<>>]

PathLine(m, p) == [msg |-> m, path |-> p]

Blank == Line("")

\* how a blocking call ended
Returned(rc) == [kind |-> "returned", rc |-> rc]

Raised(e) == [kind |-> e, rc |-> 0]

NotReached == [kind |-> "none", rc |-> 0]

\* a slip: a main() that returns nothing is taken for a failure
ExitStatusNoneFails(r) == IF r = <<>> THEN 1 ELSE r[1]

\* exit_code if exit_code is not None else 0
ExitStatus(r) == IF r = <<>> THEN 0 ELSE r[1]

(***************************************************************************)
(* The state after the interpreter has loaded the script.                  *)
(***************************************************************************)
Init ==
    /\ fs \in Layouts
    /\ fs0 = fs
    /\ pc = "start"
    /\ exists = FALSE
    /\ answer = <<>>
    /\ imp = "none"
    /\ inst = NotReached
    /\ gen = NotReached
    /\ exc = "none"
    /\ ret = <<>>
    /\ exit = <<>>
    /\ out = <<>>
    /\ calls = <<>>
    /\ trace = <<>>
    /\ prev = <<>>

(***************************************************************************)
(* main(), lines 17-20: the banner.                                        *)
(***************************************************************************)
Banner ==
    /\ pc = "start"
    /\ out' = out \o <<Line("rule"), Line("Nilos Engine - GLAD Setup Script"),
                       Line("rule"), Blank>>
    /\ pc' = "probe"
    /\ UNCHANGED <<fs, fs0, exists, answer, imp, inst, gen, exc, ret, exit, calls, trace, prev>>

(***************************************************************************)
(* main(), lines 23-28: the paths are computed and the header is probed.   *)
(***************************************************************************)
Probe ==
    /\ pc = "probe"
    /\ exists' = (glad_header \in fs)
    /\ trace' = Append(trace, "probe")
    /\ IF glad_header \in fs
       THEN /\ out' = out \o <<Line("GLAD is already set up!"),
                               PathLine("Found", glad_header)>>
            /\ pc' = "prompt"
       ELSE /\ out' = out
            /\ pc' = "import"
    /\ UNCHANGED <<fs, fs0, answer, imp, inst, gen, exc, ret, exit, calls, prev>>

(***************************************************************************)
(* main(), lines 29-33: input() shows the prompt and blocks; the user      *)
(* types a line.                                                           *)
(***************************************************************************)
\* a slip: the `return` of line 32 is missing
PromptAnswerFallsThrough ==
    /\ pc = "prompt"
    /\ \E line \in Answers :
        /\ answer' = <<line>>
        /\ IF Regenerate(line)
           THEN out' = out \o <<Line("Do you want to regenerate GLAD? (y/N): "), Blank>>
           ELSE out' = out \o <<Line("Do you want to regenerate GLAD? (y/N): "),
                                 Line("Keeping existing GLAD setup."), Blank>>
    /\ ret' = ret
    /\ pc' = "import"
    /\ trace' = Append(trace, "prompt")
    /\ UNCHANGED <<fs, fs0, exists, imp, inst, gen, exc, exit, calls, prev>>

PromptAnswer ==
    /\ pc = "prompt"
    /\ \E line \in Answers :
        /\ answer' = <<line>>
        /\ IF Regenerate(line)
           THEN /\ out' = out \o <<Line("Do you want to regenerate GLAD? (y/N): "), Blank>>
                /\ ret' = ret
                /\ pc' = "import"
           ELSE /\ out' = out \o <<Line("Do you want to regenerate GLAD? (y/N): "),
                                   Line("Keeping existing GLAD setup.")>>
                /\ ret' = <<>>
                /\ pc' = "returned"
    /\ trace' = Append(trace, "prompt")
    /\ UNCHANGED <<fs, fs0, exists, imp, inst, gen, exc, exit, calls, prev>>

\* Ctrl-C while input() blocks
PromptInterrupt ==
    /\ pc = "prompt"
    /\ out' = Append(out, Line("Do you want to regenerate GLAD? (y/N): "))
    /\ trace' = Append(trace, "prompt")
    /\ exc' = "KeyboardInterrupt"
    /\ pc' = "raised"
    /\ UNCHANGED <<fs, fs0, exists, answer, imp, inst, gen, ret, exit, calls, prev>>

\* standard input is at its end: input() raises EOFError
PromptEOF ==
    /\ pc = "prompt"
    /\ out' = Append(out, Line("Do you want to regenerate GLAD? (y/N): "))
    /\ trace' = Append(trace, "prompt")
    /\ exc' = "Exception"
    /\ pc' = "raised"
    /\ UNCHANGED <<fs, fs0, exists, answer, imp, inst, gen, ret, exit, calls, prev>>

(***************************************************************************)
(* main(), lines 36-41: `import glad`.                                     *)
(***************************************************************************)
ImportOk ==
    /\ pc = "import"
    /\ imp' = "ok"
    /\ trace' = Append(trace, "import")
    /\ out' = Append(out, Line("GLAD Python package found"))
    /\ pc' = "announce"
    /\ UNCHANGED <<fs, fs0, exists, answer, inst, gen, exc, ret, exit, calls, prev>>

ImportMissing ==
    /\ pc = "import"
    /\ imp' = "ImportError"
    /\ trace' = Append(trace, "import")
    /\ out' = out \o <<Line("GLAD Python package not found"), Line("Installing glad...")>>
    /\ pc' = "install"
    /\ UNCHANGED <<fs, fs0, exists, answer, inst, gen, exc, ret, exit, calls, prev>>

\* the package is there but raises something other than ImportError when loaded
ImportCrash ==
    /\ pc = "import"
    /\ imp' = "Exception"
    /\ trace' = Append(trace, "import")
    /\ exc' = "Exception"
    /\ pc' = "raised"
    /\ UNCHANGED <<fs, fs0, exists, answer, inst, gen, ret, exit, out, calls, prev>>

(***************************************************************************)
(* main(), lines 42-49: subprocess.check_call of pip.                      *)
(***************************************************************************)
\* a slip: after a successful install the import is tried again
InstallReturnsThenImports ==
    /\ pc = "install"
    /\ calls' = Append(calls, PipCmd)
    /\ trace' = Append(trace, "install")
    /\ \E rc \in ReturnCodes :
        /\ inst' = Returned(rc)
        /\ IF rc = 0
           THEN /\ out' = Append(out, Line("GLAD Python package installed"))
                /\ ret' = ret
                /\ pc' = "import"
           ELSE /\ out' = out \o <<Line("Failed to install GLAD package"),
                                   Line("Please install manually:"),
                                   Line("pip install glad")>>
                /\ ret' = <<1>>
                /\ pc' = "returned"
    /\ UNCHANGED <<fs, fs0, exists, answer, imp, gen, exc, exit, prev>>

\* a slip: the except branch of line 45 does not return
InstallReturnsFallsThrough ==
    /\ pc = "install"
    /\ calls' = Append(calls, PipCmd)
    /\ trace' = Append(trace, "install")
    /\ \E rc \in ReturnCodes :
        /\ inst' = Returned(rc)
        /\ IF rc = 0
           THEN out' = Append(out, Line("GLAD Python package installed"))
           ELSE out' = out \o <<Line("Failed to install GLAD package"),
                                 Line("Please install manually:"),
                                 Line("pip install glad")>>
    /\ ret' = ret
    /\ pc' = "announce"
    /\ UNCHANGED <<fs, fs0, exists, answer, imp, gen, exc, exit, prev>>

InstallReturns ==
    /\ pc = "install"
    /\ calls' = Append(calls, PipCmd)
    /\ trace' = Append(trace, "install")
    /\ \E rc \in ReturnCodes :
        /\ inst' = Returned(rc)
        /\ IF rc = 0
           THEN /\ out' = Append(out, Line("GLAD Python package installed"))
                /\ ret' = ret
                /\ pc' = "announce"
           ELSE \* check_call raises CalledProcessError, caught at line 45
                /\ out' = out \o <<Line("Failed to install GLAD package"),
                                   Line("Please install manually:"),
                                   Line("pip install glad")>>
                /\ ret' = <<1>>
                /\ pc' = "returned"
    /\ UNCHANGED <<fs, fs0, exists, answer, imp, gen, exc, exit, prev>>

\* Ctrl-C while check_call waits for pip
InstallInterrupt ==
    /\ pc = "install"
    /\ calls' = Append(calls, PipCmd)
    /\ trace' = Append(trace, "install")
    /\ inst' = Raised("KeyboardInterrupt")
    /\ exc' = "KeyboardInterrupt"
    /\ pc' = "raised"
    /\ UNCHANGED <<fs, fs0, exists, answer, imp, gen, ret, exit, out, prev>>

\* the child process cannot be started: Popen raises OSError
InstallNotStarted ==
    /\ pc = "install"
    /\ calls' = Append(calls, PipCmd)
    /\ trace' = Append(trace, "install")
    /\ inst' = Raised("OSError")
    /\ exc' = "Exception"
    /\ pc' = "raised"
    /\ UNCHANGED <<fs, fs0, exists, answer, imp, gen, ret, exit, out, prev>>

(***************************************************************************)
(* main(), lines 51-53.                                                    *)
(***************************************************************************)
Announce ==
    /\ pc = "announce"
    /\ out' = out \o <<Blank, Line("Generating GLAD files for OpenGL 3.3 Core..."), Blank>>
    /\ pc' = "generate"
    /\ UNCHANGED <<fs, fs0, exists, answer, imp, inst, gen, exc, ret, exit, calls, trace, prev>>

(***************************************************************************)
(* main(), lines 56-82: subprocess.check_call of the generator.  The       *)
(* generator is an external tool: when it exits 0 it has written its three *)
(* files; when it fails or is interrupted it may have written some of them.   *)
(***************************************************************************)
SuccessReport ==
    <<Blank, Line("GLAD generated successfully!"), Blank, Line("Generated files:")>>
    \o [i \in 1..Len(GeneratedFiles) |-> PathLine("-", GeneratedFiles[i])]
    \o <<Blank, Line("Setup complete! You can now build the project.")>>

FailureReport ==
    <<Line("Failed to generate GLAD"), Blank,
      Line("Alternative: Download manually from https://glad.dav1d.de/")>>

\* a slip: the except branch of line 76 does not return, and line 82 returns 0
GenerateReturnsFallsThrough ==
    /\ pc = "generate"
    /\ calls' = Append(calls, GladCmd)
    /\ \E rc \in ReturnCodes :
        /\ gen' = Returned(rc)
        /\ IF rc = 0
           THEN /\ fs' = fs \cup FileSet
                /\ out' = out \o SuccessReport
                /\ trace' = trace \o <<"generate", "report">>
           ELSE /\ \E written \in Layouts : fs' = fs \cup written
                /\ out' = out \o FailureReport
                /\ trace' = Append(trace, "generate")
    /\ ret' = <<0>>
    /\ pc' = "returned"
    /\ UNCHANGED <<fs0, exists, answer, imp, inst, exc, exit, prev>>

GenerateReturns ==
    /\ pc = "generate"
    /\ calls' = Append(calls, GladCmd)
    /\ \E rc \in ReturnCodes :
        /\ gen' = Returned(rc)
        /\ IF rc = 0
           THEN /\ fs' = fs \cup FileSet
                /\ out' = out \o SuccessReport
                /\ trace' = trace \o <<"generate", "report">>
                /\ ret' = <<0>>
           ELSE \* check_call raises CalledProcessError, caught at line 76
                /\ \E written \in Layouts : fs' = fs \cup written
                /\ out' = out \o FailureReport
                /\ trace' = Append(trace, "generate")
                /\ ret' = <<1>>
    /\ pc' = "returned"
    /\ UNCHANGED <<fs0, exists, answer, imp, inst, exc, exit, prev>>

\* Ctrl-C while check_call waits for the generator
GenerateInterrupt ==
    /\ pc = "generate"
    /\ calls' = Append(calls, GladCmd)
    /\ trace' = Append(trace, "generate")
    /\ gen' = Raised("KeyboardInterrupt")
    /\ \E written \in Layouts : fs' = fs \cup written
    /\ exc' = "KeyboardInterrupt"
    /\ pc' = "raised"
    /\ UNCHANGED <<fs0, exists, answer, imp, inst, ret, exit, out, prev>>

\* the child process cannot be started: Popen raises OSError
GenerateNotStarted ==
    /\ pc = "generate"
    /\ calls' = Append(calls, GladCmd)
    /\ trace' = Append(trace, "generate")
    /\ gen' = Raised("OSError")
    /\ exc' = "Exception"
    /\ pc' = "raised"
    /\ UNCHANGED <<fs, fs0, exists, answer, imp, inst, ret, exit, out, prev>>

(***************************************************************************)
(* __main__, lines 85-93.                                                  *)
(***************************************************************************)
\* main() returned: sys.exit(exit_code if exit_code is not None else 0)
ExitReturned ==
    /\ pc = "returned"
    /\ exit' = <<ExitStatus(ret)>>
    /\ pc' = "exited"
    /\ UNCHANGED <<fs, fs0, exists, answer, imp, inst, gen, exc, ret, out, calls, trace, prev>>

\* a slip: one handler, for every exception
HandlerCatchAll(e) == [msg |-> "Unexpected error", code |-> 1]

\* the message and exit code of the handler that catches exception e
Handler(e) ==
    IF e = "KeyboardInterrupt"
    THEN [msg |-> "Setup cancelled by user.", code |-> 1]
    ELSE [msg |-> "Unexpected error", code |-> 1]

ExitRaised ==
    /\ pc = "raised"
    /\ out' = Append(out, Line(Handler(exc).msg))
    /\ exit' = <<Handler(exc).code>>
    /\ pc' = "exited"
    /\ UNCHANGED <<fs, fs0, exists, answer, imp, inst, gen, exc, ret, calls, trace, prev>>

(***************************************************************************)
(* The script is run again.  NextRun is the second of two runs in          *)
(* succession: it finds the filesystem as the last run left it.  In        *)
(* RunAfterChange somebody has added or removed generated files in         *)
(* between.                                                                *)
(***************************************************************************)
RunRecord ==
    [fs0 |-> fs0, fs |-> fs, exists |-> exists, answer |-> answer, imp |-> imp,
     inst |-> inst, gen |-> gen, exc |-> exc, exit |-> exit, out |-> out,
     calls |-> calls, trace |-> trace]

StartRun(files) ==
    /\ pc = "exited"
    /\ prev' = <<RunRecord>>
    /\ fs' = files
    /\ fs0' = files
    /\ pc' = "start"
    /\ exists' = FALSE
    /\ answer' = <<>>
    /\ imp' = "none"
    /\ inst' = NotReached
    /\ gen' = NotReached
    /\ exc' = "none"
    /\ ret' = <<>>
    /\ exit' = <<>>
    /\ out' = <<>>
    /\ calls' = <<>>
    /\ trace' = <<>>

NextRun == StartRun(fs)

RunAfterChange == \E files \in Layouts \ {fs} : StartRun(files)

Next ==
    \/ Banner
    \/ Probe
    \/ PromptAnswer
    \/ PromptInterrupt
    \/ PromptEOF
    \/ ImportOk
    \/ ImportMissing
    \/ ImportCrash
    \/ InstallReturns
    \/ InstallInterrupt
    \/ InstallNotStarted
    \/ Announce
    \/ GenerateReturns
    \/ GenerateInterrupt
    \/ GenerateNotStarted
    \/ ExitReturned
    \/ ExitRaised
    \/ NextRun
    \/ RunAfterChange

Spec == Init /\ [][Next]_vars

(***************************************************************************)
(* Vocabulary of the properties.                                           *)
(***************************************************************************)
Exited == pc = "exited"

Y == <<"y">>

Has(seq, x) == \E i \in 1..Len(seq) : seq[i] = x

HasMsg(lines, m) == \E i \in 1..Len(lines) : lines[i].msg = m

LastMsg(lines) == lines[Len(lines)].msg

Count(seq, x) == Cardinality({i \in 1..Len(seq) : seq[i] = x})

\* the directory a path lies in
Dirname(p) == SubSeq(p, 1, Len(p) - 1)

\* the word that follows option opt in an argv
OptionValue(argv, opt) ==
    LET i == CHOOSE k \in 1..Len(argv) : argv[k] = Str(opt) IN argv[i + 1]

InstallerInvoked(c) == \E i \in 1..Len(c) : c[i][3] = Str("pip")

GeneratorInvoked(c) == \E i \in 1..Len(c) : c[i][3] = Str("glad")

CancelMsg == "Setup cancelled by user."

UnexpectedMsg == "Unexpected error"

InstallFailedMsg == "Failed to install GLAD package"

GenFailedMsg == "Failed to generate GLAD"

ManualDownloadMsg == "Alternative: Download manually from https://glad.dav1d.de/"

\* the paths listed under "Generated files:", in the order printed
ReportedPaths(lines) ==
    LET listed == SelectSeq(lines, LAMBDA l : l.msg = "-")
    IN  [i \in 1..Len(listed) |-> listed[i].path]

\* the user typed a line at the prompt of this run
Answered == exists /\ answer # <<>>

(***************************************************************************)
(* C1 as stated: the header exists and the line typed is anything other    *)
(* than "y" or "Y"; then no subprocess is ever started and the run exits   *)
(* 0.  The script strips the line before it compares, so " y" regenerates. *)
(***************************************************************************)
C1_AsStated ==
    (Answered /\ answer[1] \notin {<<"y">>, <<"Y">>})
        => /\ calls = <<>>
           /\ Exited => exit = <<0>>

(***************************************************************************)
(* C1: whenever the header exists and the line typed, with leading and     *)
(* trailing whitespace removed and lowercased, is not "y", neither the     *)
(* installer nor the generator is invoked and the run exits 0.             *)
(***************************************************************************)
C1_DeclineIsQuiet ==
    (Answered /\ Lower(Strip(answer[1])) # Y)
        => /\ calls = <<>>
           /\ imp = "none"
           /\ Exited => exit = <<0>>

C1_Witness ==
    /\ Exited
    /\ Answered
    /\ answer[1] = <<"n", "y">>
    /\ exit = <<0>>

Interrupted ==
    \/ (exists /\ answer = <<>> /\ Has(trace, "prompt") /\ exc = "KeyboardInterrupt")
    \/ inst = Raised("KeyboardInterrupt")
    \/ gen = Raised("KeyboardInterrupt")

(***************************************************************************)
(* C2: a run in which Ctrl-C arrived while it was blocked at the prompt,   *)
(* in the installer or in the generator exits 1, its last line is the      *)
(* cancellation message, and it prints none of the install-failure,        *)
(* generation-failure and unexpected-error messages.                       *)
(***************************************************************************)
C2_InterruptCancels ==
    (Exited /\ Interrupted)
        => /\ exit = <<1>>
           /\ LastMsg(out) = CancelMsg
           /\ ~HasMsg(out, GenFailedMsg)
           /\ ~HasMsg(out, InstallFailedMsg)
           /\ ~HasMsg(out, UnexpectedMsg)

C2_Witness ==
    /\ Exited
    /\ inst = Returned(0)
    /\ gen = Raised("KeyboardInterrupt")
    /\ exit = <<1>>

InstallFailed == imp = "ImportError" /\ inst.kind = "returned" /\ inst.rc # 0

(***************************************************************************)
(* C3: once `import glad` has failed and pip has returned a non-zero       *)
(* status, the generator is never started in that run and the run exits 1. *)
(***************************************************************************)
C3_InstallFailureIsFinal ==
    InstallFailed
        => /\ ~GeneratorInvoked(calls)
           /\ gen = NotReached
           /\ Exited => exit = <<1>>

C3_Witness ==
    /\ Exited
    /\ InstallFailed
    /\ exit = <<1>>
    /\ calls = <<PipCmd>>

GeneratorFailed == gen.kind = "returned" /\ gen.rc # 0

(***************************************************************************)
(* C4: a run whose generator returned a non-zero status exits 1, prints    *)
(* the manual-download hint and prints no success report, whether glad was *)
(* importable or was installed in this run.                                *)
(***************************************************************************)
C4_GeneratorFailureExitsOne ==
    (Exited /\ GeneratorFailed)
        => /\ exit = <<1>>
           /\ HasMsg(out, ManualDownloadMsg)
           /\ ~HasMsg(out, "Generated files:")
           /\ ~HasMsg(out, "GLAD generated successfully!")
           /\ ReportedPaths(out) = <<>>

C4_Witness ==
    /\ Exited
    /\ GeneratorFailed
    /\ imp = "ImportError"
    /\ inst = Returned(0)
    /\ exit = <<1>>

ExpectedPaths ==
    << <<"external", "glad", "include", "glad", "glad.h">>,
       <<"external", "glad", "include", "KHR", "khrplatform.h">>,
       <<"external", "glad", "src", "glad.c">> >>

FreshSuccess == ~exists /\ imp = "ok" /\ gen = Returned(0)

(***************************************************************************)
(* C5: a run that finds no header, imports glad and whose generator exits  *)
(* 0 never starts pip, exits 0 and lists exactly the three paths           *)
(* external/glad/include/glad/glad.h, external/glad/include/KHR/           *)
(* khrplatform.h and external/glad/src/glad.c.                             *)
(***************************************************************************)
C5_FreshSuccess ==
    FreshSuccess
        => /\ ~InstallerInvoked(calls)
           /\ inst = NotReached
           /\ Exited => /\ exit = <<0>>
                        /\ ReportedPaths(out) = ExpectedPaths

C5_Witness ==
    /\ Exited
    /\ FreshSuccess
    /\ exit = <<0>>
    /\ Len(ReportedPaths(out)) = 3

PreambleMsgs ==
    {"rule", "Nilos Engine - GLAD Setup Script", "", "GLAD is already set up!", "Found",
     "Do you want to regenerate GLAD? (y/N): "}

\* the lines a run printed after the prompt (after the probe when there is
\* no prompt), empty lines left out
Reports(r) == SelectSeq(r.out, LAMBDA l : l.msg \notin PreambleMsgs)

StepsAfterPrompt(r) == SelectSeq(r.trace, LAMBDA st : st \notin {"probe", "prompt"})

Affirmed(r) == r.exists /\ r.answer \in {<< <<"y">> >>, << <<"Y">> >>}

Fresh(r) == ~r.exists /\ Has(r.trace, "probe")

SameResults(a, b) == a.imp = b.imp /\ a.inst = b.inst /\ a.gen = b.gen

RegeneratesLike(a, b) ==
    (Affirmed(a) /\ Fresh(b) /\ SameResults(a, b))
        => /\ a.calls = b.calls
           /\ a.exit = b.exit
           /\ Reports(a) = Reports(b)
           /\ StepsAfterPrompt(a) = StepsAfterPrompt(b)

(***************************************************************************)
(* C6: a run that finds the header and is answered "y" or "Y" goes on to   *)
(* the dependency check, and it starts the same subprocesses with the same *)
(* arguments, takes the same steps after the prompt, prints the same       *)
(* reports after the prompt and exits with the same code as a run that     *)
(* finds no header and meets the same import, installer and generator      *)
(* results.                                                                *)
(***************************************************************************)
C6_AffirmedRunIsFreshRun ==
    Exited
        => /\ Affirmed(RunRecord) => Has(trace, "import")
           /\ prev # <<>> => /\ RegeneratesLike(RunRecord, prev[1])
                             /\ RegeneratesLike(prev[1], RunRecord)

C6_Witness ==
    /\ Exited
    /\ prev # <<>>
    /\ answer = << <<"Y">> >>
    /\ Affirmed(RunRecord)
    /\ Fresh(prev[1])
    /\ SameResults(RunRecord, prev[1])
    /\ imp = "ImportError"
    /\ inst = Returned(0)
    /\ gen = Returned(2)

Declined == Answered /\ Lower(Strip(answer[1])) # Y

UnexpectedError ==
    \/ (exists /\ answer = <<>> /\ Has(trace, "prompt") /\ exc = "Exception")
    \/ imp = "Exception"
    \/ inst = Raised("OSError")
    \/ gen = Raised("OSError")

(***************************************************************************)
(* C7: a run exits with 0 or 1; with 0 exactly when the user declined to   *)
(* regenerate or the generator exited 0; with 1 when the installer failed, *)
(* the generator failed, the user cancelled (last line: the cancellation   *)
(* message) or an unexpected error was raised (last line: the              *)
(* unexpected-error message, and no cancellation message).                 *)
(***************************************************************************)
C7_ExitCodes ==
    Exited
        => /\ exit \in {<<0>>, <<1>>}
           /\ exit = <<0>> <=> (Declined \/ gen = Returned(0))
           /\ (InstallFailed \/ GeneratorFailed) => exit = <<1>>
           /\ Interrupted => /\ exit = <<1>>
                             /\ LastMsg(out) = CancelMsg
                             /\ ~HasMsg(out, UnexpectedMsg)
           /\ UnexpectedError => /\ exit = <<1>>
                                 /\ LastMsg(out) = UnexpectedMsg
                                 /\ ~HasMsg(out, CancelMsg)

C7_Witness ==
    /\ Exited
    /\ inst = Raised("OSError")
    /\ exit = <<1>>
    /\ LastMsg(out) = UnexpectedMsg

TargetPath == <<"external", "glad", "include", "glad", "glad.h">>

GeneratorArgv == calls[Len(calls)]

(***************************************************************************)
(* C8 as stated: the generator is started with --out-path set to the       *)
(* directory the probed header lies in.                                    *)
(***************************************************************************)
C8_AsStated ==
    gen # NotReached
        => /\ OptionValue(GeneratorArgv, "--generator") = Str("c")
           /\ OptionValue(GeneratorArgv, "--spec") = Str("gl")
           /\ OptionValue(GeneratorArgv, "--api") = Str("gl=3.3")
           /\ OptionValue(GeneratorArgv, "--out-path") = Dirname(TargetPath)

(***************************************************************************)
(* C8: the generator is always started with --generator c, --spec gl,      *)
(* --api gl=3.3 and --out-path external/glad, which is the directory three *)
(* levels above the probed header external/glad/include/glad/glad.h.       *)
(***************************************************************************)
C8_FixedRequest ==
    /\ Has(trace, "probe") => exists = (TargetPath \in fs0)
    /\ gen # NotReached
        => /\ GeneratorArgv[3] = Str("glad")
           /\ OptionValue(GeneratorArgv, "--generator") = Str("c")
           /\ OptionValue(GeneratorArgv, "--spec") = Str("gl")
           /\ OptionValue(GeneratorArgv, "--api") = Str("gl=3.3")
           /\ OptionValue(GeneratorArgv, "--out-path") = <<"external", "glad">>
           /\ OptionValue(GeneratorArgv, "--out-path") = Dirname(Dirname(Dirname(TargetPath)))

C8_Witness ==
    /\ Exited
    /\ exists
    /\ gen = Returned(0)
    /\ GeneratorInvoked(calls)

DeclinedRun(r) == r.exists /\ r.answer # <<>> /\ Lower(Strip(r.answer[1])) # Y

InSuccession == prev # <<>> /\ fs0 = prev[1].fs

Quiet(r) == r.exit = <<0>> /\ r.calls = <<>> /\ r.fs = r.fs0

(***************************************************************************)
(* C9: of two runs in succession that both find the header and are both    *)
(* answered with a declining line, each exits 0, starts no subprocess and  *)
(* leaves the generated files as it found them, so the second run starts   *)
(* from the files the first started from and prints what the first printed.*)
(***************************************************************************)
C9_DeclineTwice ==
    (Exited /\ InSuccession /\ DeclinedRun(prev[1]) /\ DeclinedRun(RunRecord))
        => /\ Quiet(prev[1])
           /\ Quiet(RunRecord)
           /\ fs0 = prev[1].fs0
           /\ out = prev[1].out
           /\ trace = prev[1].trace

C9_Witness ==
    /\ Exited
    /\ InSuccession
    /\ DeclinedRun(prev[1])
    /\ DeclinedRun(RunRecord)
    /\ prev[1].answer = << <<"n">> >>
    /\ answer = << <<"n">> >>
    /\ glad_header \in fs

Rank(st) ==
    CASE st = "probe" -> 1
      [] st = "prompt" -> 2
      [] st = "import" -> 3
      [] st = "install" -> 4
      [] st = "generate" -> 5
      [] st = "report" -> 6

InOrder(t) == \A i \in 1..(Len(t) - 1) : Rank(t[i]) < Rank(t[i + 1])

Linear ==
    /\ InOrder(trace)
    /\ Has(trace, "prompt") => exists
    /\ Count(out, Line("Do you want to regenerate GLAD? (y/N): ")) <= 1
    /\ HasMsg(out, "Do you want to regenerate GLAD? (y/N): ") => Has(trace, "prompt")
    /\ Has(trace, "install") => imp = "ImportError"
    /\ Has(trace, "generate") => (imp = "ok" \/ (imp = "ImportError" /\ inst = Returned(0)))
    /\ Has(trace, "report") => gen = Returned(0)
    /\ Count(calls, PipCmd) = Count(trace, "install")
    /\ Count(calls, GladCmd) = Count(trace, "generate")
    /\ Len(calls) = Count(calls, PipCmd) + Count(calls, GladCmd)

Failed == ret = <<1>> \/ exc # "none"

NoStepAfterFailure == (Failed /\ pc' # "start") => (calls' = calls /\ trace' = trace)

(***************************************************************************)
(* C10: the steps of a run occur in the order probe, prompt, dependency    *)
(* check, installer, generator, report, each at most once; the prompt only *)
(* when the header exists; the installer only after the import failed; the *)
(* generator only after the import succeeded or the installer exited 0;    *)
(* and once a run has failed it starts no further subprocess.              *)
(***************************************************************************)
C10_LinearNoRetry == [](Linear) /\ [][NoStepAfterFailure]_vars

C10_Witness ==
    /\ Exited
    /\ trace = <<"probe", "prompt", "import", "install", "generate", "report">>

====
